---- MODULE Spec2Model ----
(***************************************************************************)
(* Model of the xdb Maker (maker/golang/xdb/maker.go): NewMaker, Init,     *)
(* Start and End, with the destination file kept as the list of writes     *)
(* made to it, so that every byte of the output can be read back.          *)
(*                                                                         *)
(* Representation.                                                         *)
(*  - A uint32 address is a pair <<hi, lo>> of its two 16-bit halves; the  *)
(*    arithmetic on it (U32Inc, U32Gt) is the 32-bit arithmetic of Go.     *)
(*  - A dotted-quad text is the tuple of the numbers between its dots.     *)
(*  - A region text is [ch, n]: the string made of n copies of byte ch.    *)
(*  - File positions are int64 in the code and plain integers here.        *)
(*  - The Go zero value of an array cell or a missing map key is kept      *)
(*    implicit: vectorIndex and regionPool hold only the keys written.     *)
(*                                                                         *)
(* Environment.  Opening a file, reading the source and closing a handle   *)
(* may fail; a seek or write on an open destination succeeds, on a closed  *)
(* one it fails.  The source is a regular file whose lines each end with   *)
(* a newline; NewMaker opens it and srcFile keeps the part of it the       *)
(* handle has not read yet.  A Read of the open handle fills the space it  *)
(* is given, as far as the file goes, or fails; each loadSegments reads    *)
(* through a bufio.Scanner of its own, which takes the file in pieces of   *)
(* its buffer (4096 bytes, doubled up to 64 KiB when a line does not fit)  *)
(* and hands what it holds to the loop when a Read fails.  Init, Start     *)
(* and End are called in any order and any number of times, Init up to     *)
(* MaxInits calls and Start up to MaxStarts passes.                        *)
(*                                                                         *)
(* Two specifications.  Spec runs the Maker on the source files of         *)
(* SourceFiles and keeps every byte of the output; its files stay far      *)
(* below 2^32 bytes.  BulkSpec runs Init and Start on source files of      *)
(* tens of thousands of records, where with long texts the file cursor     *)
(* (int64) passes 2^32 and the offsets stored as uint32 are truncated; it  *)
(* keeps the cursor as <<hi, lo>> and, of the output, the stored offsets   *)
(* (variable bulk).  Each specification leaves the other's state alone.    *)
(***************************************************************************)
EXTENDS Integers, Sequences, FiniteSets, TLC

\* ------------------------------------------------------------ constants
VersionNo == 2
HeaderInfoLength == 256
VectorIndexRows == 256
VectorIndexCols == 256
VectorIndexSize == 8
VectorIndexLength == VectorIndexRows * VectorIndexCols * VectorIndexSize
\* size of an encoded index entry: 4 + 4 + 2 + 4 bytes
SegmentIndexBlockSize == 14
\* 0xFFFF, the longest region Start accepts
MaxRegionLen == 65535
\* bufio.MaxScanTokenSize, the buffer limit of the line scanner
MaxScanTokenSize == 65536
\* the size of the first buffer a bufio.Scanner allocates
StartBufSize == 4096

\* ------------------------------------------------------------ bounds
MaxStarts == 2
MaxInits == 2

\* ------------------------------------------------------------ integers
\* 2^16: a uint32 is handled as two 16-bit halves
Half == 256 * 256

\* uint32(x) of a non-negative integer, computed on its 16-bit halves
Uint32(x) == ((x \div Half) % Half) * Half + (x % Half)

\* uint16(x)
Uint16(x) == x % Half

U32Inc(a) == IF a[2] = Half - 1 THEN <<(a[1] + 1) % Half, 0>> ELSE <<a[1], a[2] + 1>>

U32Gt(a, b) == a[1] > b[1] \/ (a[1] = b[1] /\ a[2] > b[2])

\* binary.LittleEndian.PutUint16 / PutUint32
PutUint16(x) == <<x % 256, (x \div 256) % 256>>

PutUint32(x) == <<x % 256, (x \div 256) % 256, (x \div Half) % 256, (x \div (256 * Half)) % 256>>

PutUint32IP(a) == PutUint16(a[2]) \o PutUint16(a[1])

\* binary.LittleEndian.Uint16 / Uint32 (what a reader of the file decodes)
GetUint16(b) == b[1] + 256 * b[2]

GetUint32(b) == b[1] + 256 * b[2] + Half * b[3] + 256 * Half * b[4]

GetUint32IP(b) == <<b[3] + 256 * b[4], b[1] + 256 * b[2]>>

MaxOf(S) == CHOOSE x \in S : \A y \in S : y <= x

Min(a, b) == IF a < b THEN a ELSE b

\* ------------------------------------------------------------ texts
RegionLen(t) == t.n

CharCode(ch) == IF ch = "A" THEN 65 ELSE 66

Digits(o) == IF o < 10 THEN 1 ELSE IF o < 100 THEN 2 ELSE 3

IPTextLen(t) == Digits(t[1]) + Digits(t[2]) + Digits(t[3]) + Digits(t[4]) + 3

\* len of a source line: "<sip>|<eip>|<region>", or a line with no separator
LineLen(l) == IF l.fields = 3 THEN IPTextLen(l.sip) + 1 + IPTextLen(l.eip) + 1 + RegionLen(l.region)
              ELSE l.len

\* CheckIP: a dotted quad to its uint32, or an error
CheckIPOk(t) == \A i \in 1..4 : t[i] \in 0..255

CheckIP(t) == <<t[1] * 256 + t[2], t[3] * 256 + t[4]>>

\* ------------------------------------------------------------ inputs
IpA == <<0, 0, 0, 0>>
IpB == <<0, 0, 255, 254>>
IpC == <<0, 0, 255, 255>>
IpD == <<0, 1, 0, 0>>
IpM == <<255, 255, 255, 255>>
IpBad == <<1, 2, 3, 256>>

TextA == [ch |-> "A", n |-> 3]
TextB == [ch |-> "B", n |-> 1]
TextEmpty == [ch |-> "A", n |-> 0]
TextLong == [ch |-> "A", n |-> MaxRegionLen + 1]

Record(s, e, t) == [fields |-> 3, sip |-> s, eip |-> e, region |-> t, len |-> 0]

\* a line without any separator, of n bytes
FillLine(n) == [fields |-> 1, sip |-> IpA, eip |-> IpA, region |-> TextEmpty, len |-> n]

\* the empty line
EmptyLine == FillLine(0)

\* the text that makes "0.0.0.0|0.0.255.254|<text>" and its newline as long
\* as the first buffer of the scanner
TextFill == [ch |-> "A", n |-> StartBufSize - 21]

\* the source files: the empty file; one range; two adjacent ranges with the
\* same and with different texts; the last address followed by the first; a
\* gap; start > end, alone and with an empty text; an empty text; a text too
\* long for the scanner, after a range and alone; an end ip that is none; the
\* empty line; and three files in which a line ends where the first buffer
\* of the scanner ends
SourceFiles ==
    {<<>>,
     <<Record(IpA, IpB, TextA)>>,
     <<Record(IpA, IpB, TextB)>>,
     <<Record(IpA, IpB, TextA), Record(IpC, IpD, TextA)>>,
     <<Record(IpA, IpB, TextA), Record(IpC, IpD, TextB)>>,
     <<Record(IpM, IpM, TextA), Record(IpA, IpB, TextB)>>,
     <<Record(IpA, IpB, TextA), Record(IpD, IpD, TextA)>>,
     <<Record(IpA, IpB, TextB), Record(IpD, IpC, TextA)>>,
     <<Record(IpD, IpC, TextEmpty)>>,
     <<Record(IpA, IpB, TextA), Record(IpC, IpD, TextEmpty)>>,
     <<Record(IpA, IpB, TextA), Record(IpC, IpD, TextLong)>>,
     <<Record(IpC, IpD, TextLong)>>,
     <<Record(IpA, IpBad, TextA)>>,
     <<EmptyLine>>,
     <<FillLine(StartBufSize - 1), Record(IpA, IpB, TextA)>>,
     <<Record(IpA, IpB, TextA), FillLine(StartBufSize - 25), Record(IpD, IpD, TextB)>>,
     <<Record(IpA, IpB, TextFill), Record(IpC, IpD, TextB)>>}

Policies == {1, 2}
Clock == {1650000000}

\* ------------------------------------------------------------ state
VARIABLES called, made, srcFile, srcRead, srcHandle, dstHandle, indexPolicy, segments,
          regionPool, vectorIndex, dstFile, dstPos, scanErr, inits, runs, ret,
          bulk

\* the Maker run on the inputs of the model
makerVars == <<called, made, srcFile, srcRead, srcHandle, dstHandle, indexPolicy, segments,
               regionPool, vectorIndex, dstFile, dstPos, scanErr, inits, runs, ret>>

vars == <<called, made, srcFile, srcRead, srcHandle, dstHandle, indexPolicy, segments,
          regionPool, vectorIndex, dstFile, dstPos, scanErr, inits, runs, ret, bulk>>

\* the part of the source file the handle has not read: its lines, less the
\* first skip bytes of the first of them
Unread(skip, lines) == [skip |-> skip, lines |-> lines]

Ret(op, err) == [op |-> op, err |-> err]

\* no bulk input read (see the bulk build below)
NoBulk == [read |-> FALSE, n |-> 0, len |-> 0, kinds |-> 0, pos |-> <<0, 0>>, poolLast |-> <<0, 0>>, vi |-> <<>>,
           startIndexPtr |-> <<0, 0>>, endIndexPtr |-> <<0, 0>>,
           inits |-> 0, passes |-> 0, op |-> "none", err |-> "none"]

Init ==
    /\ called = FALSE
    /\ made = FALSE
    /\ srcFile = Unread(0, <<>>)
    /\ srcRead = <<>>
    /\ srcHandle = "nil"
    /\ dstHandle = "nil"
    /\ indexPolicy = 0
    /\ segments = <<>>
    /\ regionPool = <<>>
    /\ vectorIndex = <<>>
    /\ dstFile = <<>>
    /\ dstPos = 0
    /\ scanErr = "none"
    /\ inits = 0
    /\ runs = 0
    /\ ret = Ret("none", "none")
    /\ bulk = NoBulk

\* ------------------------------------------------------------ NewMaker
\* file: the lines of the source file that is opened
NewMaker(policy, file, srcOk, dstOk) ==
    /\ ~called
    /\ called' = TRUE
    /\ srcFile' = IF srcOk /\ dstOk THEN Unread(0, file) ELSE srcFile
    /\ srcHandle' = IF srcOk THEN "open" ELSE "nil"
    /\ dstHandle' = IF srcOk /\ dstOk THEN "open" ELSE "nil"
    /\ made' = (srcOk /\ dstOk)
    /\ indexPolicy' = IF srcOk /\ dstOk THEN policy ELSE 0
    /\ ret' = Ret("NewMaker", IF ~srcOk THEN "OpenSource" ELSE IF ~dstOk THEN "OpenTarget" ELSE "none")
    /\ UNCHANGED <<srcRead, segments, regionPool, vectorIndex, dstFile, dstPos, scanErr, inits, runs, bulk>>

\* ------------------------------------------------------------ the file
\* one write to the destination: its position, what was written and the
\* Start pass (0: Init) that made it
WriteRec(pos, what, data, run) == [pos |-> pos, what |-> what, data |-> data, run |-> run]

WriteLen(w) == IF w.what = "region" THEN RegionLen(w.data)
               ELSE IF w.what = "vector" THEN VectorIndexLength
               ELSE Len(w.data)

\* ------------------------------------------------------------ initDbHeader
Zeros(n) == [i \in 1..n |-> 0]

HeaderBytes(policy, now) ==
    PutUint16(Uint16(VersionNo)) \o PutUint16(Uint16(policy)) \o PutUint32(Uint32(now))
        \o PutUint32(0) \o PutUint32(0) \o Zeros(HeaderInfoLength - 16)

\* ------------------------------------------------------------ loadSegments
Segment(sip, eip, region) == [StartIP |-> sip, EndIP |-> eip, Region |-> region]

\* the continuity test of line 179
Discontinuous(last, seg) == U32Inc(last.EndIP) # seg.StartIP

\* mutant of LoadLine: start ip > end ip is not tested
LoadLineNoRangeTest(st, l) ==
    IF l.fields # 3 THEN [st EXCEPT !.err = "InvalidLine"]
    ELSE IF ~CheckIPOk(l.sip) THEN [st EXCEPT !.err = "InvalidAddress"]
    ELSE IF ~CheckIPOk(l.eip) THEN [st EXCEPT !.err = "InvalidAddress"]
    ELSE IF RegionLen(l.region) < 1 THEN [st EXCEPT !.err = "EmptyText"]
    ELSE LET seg == Segment(CheckIP(l.sip), CheckIP(l.eip), l.region) IN
         IF st.last # <<>> /\ Discontinuous(st.last[1], seg)
         THEN [st EXCEPT !.err = "DiscontinuousRange"]
         ELSE [st EXCEPT !.segs = Append(st.segs, seg), !.last = <<seg>>]

\* the body of the scan loop on one delivered line; st = [segs, last, err,
\* scanErr, read, rd, reads], last being <<>> for nil
LoadLine(st, l) ==
    IF l.fields # 3 THEN [st EXCEPT !.err = "InvalidLine"]
    ELSE IF ~CheckIPOk(l.sip) THEN [st EXCEPT !.err = "InvalidAddress"]
    ELSE IF ~CheckIPOk(l.eip) THEN [st EXCEPT !.err = "InvalidAddress"]
    ELSE IF U32Gt(CheckIP(l.sip), CheckIP(l.eip)) THEN [st EXCEPT !.err = "InvalidRange"]
    ELSE IF RegionLen(l.region) < 1 THEN [st EXCEPT !.err = "EmptyText"]
    ELSE LET seg == Segment(CheckIP(l.sip), CheckIP(l.eip), l.region) IN
         IF st.last # <<>> /\ Discontinuous(st.last[1], seg)
         THEN [st EXCEPT !.err = "DiscontinuousRange"]
         ELSE [st EXCEPT !.segs = Append(st.segs, seg), !.last = <<seg>>]

\* the bytes a line takes in the file: its text and the newline
LineBytes(l) == LineLen(l) + 1

\* the offset, in the unread part of the file, just behind line i
RECURSIVE LineEnd(_, _)
LineEnd(rest, i) ==
    IF i = 0 THEN 0
    ELSE LineEnd(rest, i - 1) + LineBytes(rest.lines[i]) - (IF i = 1 THEN rest.skip ELSE 0)

RestSize(rest) == LineEnd(rest, Len(rest.lines))

\* the unread part once k more bytes have been read
RECURSIVE DropBytes(_, _)
DropBytes(rest, k) ==
    IF k = 0 \/ rest.lines = <<>> THEN rest
    ELSE LET first == LineBytes(rest.lines[1]) - rest.skip IN
         IF k >= first THEN DropBytes(Unread(0, Tail(rest.lines)), k - first)
         ELSE Unread(rest.skip + k, rest.lines)

Pow10(k) == IF k = 0 THEN 1 ELSE IF k = 1 THEN 10 ELSE 100

\* a text that is no dotted quad
NotAnIP == <<-1, -1, -1, -1>>

\* scanner.Text() for the bytes [from, to) of the text of line l, as
\* strings.SplitN(l, "|", 3) cuts it: the fields it has, the start ip (cut
\* inside its first number it is still a dotted quad), the end ip and the
\* region, which ends where the token ends
TokenLine(l, from, to) ==
    IF l.fields # 3 THEN [l EXCEPT !.len = to - from]
    ELSE LET a == IPTextLen(l.sip)
             b == a + 1 + IPTextLen(l.eip)
             seps == (IF from <= a /\ a < to THEN 1 ELSE 0) + (IF from <= b /\ b < to THEN 1 ELSE 0)
         IN IF seps < 2 THEN [l EXCEPT !.fields = seps + 1, !.len = to - from]
            ELSE [l EXCEPT !.sip = IF from = 0 THEN l.sip
                                   ELSE IF from < Digits(l.sip[1])
                                   THEN <<l.sip[1] % Pow10(Digits(l.sip[1]) - from), l.sip[2], l.sip[3], l.sip[4]>>
                                   ELSE NotAnIP,
                             !.region = [ch |-> l.region.ch, n |-> to - b - 1]]

\* for scanner.Scan() { ... } on the unread part rest of the file, the Read
\* number failAt failing (0: none fails).  sc is the scanner: i the line it
\* is at, start and rd the offsets of the first byte not yet handed out and
\* of the first byte not yet read, base the offset of the first byte of its
\* buffer, size the length of the buffer, err what the last Read reported,
\* reads the Reads made.
RECURSIVE ScanLoop(_, _, _, _)
ScanLoop(rest, failAt, sc, st) ==
    LET from == IF sc.i = 1 THEN rest.skip ELSE 0
        \* the buffer holds the newline of line i
        whole == sc.i <= Len(rest.lines) /\ LineEnd(rest, sc.i) <= sc.rd
        \* the Read has failed: what is left in the buffer is the last token
        tail == sc.err # "none" /\ sc.rd > sc.start
    IN IF whole \/ tail
       THEN LET l == rest.lines[sc.i]
                tl == TokenLine(l, from, IF whole THEN LineLen(l) ELSE from + (sc.rd - sc.start))
                st2 == LoadLine([st EXCEPT !.read = Append(st.read, tl), !.rd = sc.rd, !.reads = sc.reads], tl)
            IN IF st2.err # "none" THEN st2
               ELSE ScanLoop(rest, failAt,
                             [sc EXCEPT !.start = IF whole THEN LineEnd(rest, sc.i) ELSE sc.rd,
                                        !.i = IF whole THEN sc.i + 1 ELSE sc.i],
                             st2)
       ELSE IF sc.err # "none"
       THEN [st EXCEPT !.scanErr = IF sc.err = "eof" THEN "none" ELSE sc.err, !.rd = sc.rd, !.reads = sc.reads]
       ELSE LET shift == sc.start > sc.base
                         /\ (sc.rd - sc.base = sc.size \/ sc.start - sc.base > sc.size \div 2)
                base1 == IF shift THEN sc.start ELSE sc.base
                full == sc.rd - base1 = sc.size
                size1 == IF ~full THEN sc.size
                         ELSE IF sc.size = 0 THEN StartBufSize
                         ELSE Min(2 * sc.size, MaxScanTokenSize)
                base2 == IF full THEN sc.start ELSE base1
                fails == sc.reads + 1 = failAt
                n == IF fails THEN 0 ELSE Min(size1 - (sc.rd - base2), RestSize(rest) - sc.rd)
            IN IF full /\ sc.size >= MaxScanTokenSize
               THEN [st EXCEPT !.scanErr = "tooLong", !.rd = sc.rd, !.reads = sc.reads,
                               !.read = Append(st.read, TokenLine(rest.lines[sc.i], from, LineLen(rest.lines[sc.i])))]
               ELSE ScanLoop(rest, failAt,
                             [sc EXCEPT !.base = base2, !.size = size1, !.rd = sc.rd + n,
                                        !.reads = sc.reads + 1,
                                        !.err = IF fails THEN "read" ELSE IF n = 0 THEN "eof" ELSE "none"],
                             st)

\* read: the lines handed to the loop, with the line the scanner gave up on;
\* rd: the bytes read from the handle; reads: the Reads made
loadSegments(rest, failAt, segs) ==
    ScanLoop(rest, failAt,
             [i |-> 1, start |-> 0, base |-> 0, rd |-> 0, size |-> 0, err |-> "none", reads |-> 0],
             [segs |-> segs, last |-> <<>>, err |-> "none", scanErr |-> "none",
              read |-> <<>>, rd |-> 0, reads |-> 0])

\* the Reads a loadSegments makes when none of them fails
ReadsOf(rest, segs) == loadSegments(rest, 0, segs).reads

\* ------------------------------------------------------------ Init
\* srcRead keeps the lines the loop of this call was handed; a closed source
\* handle fails the first Read
MakerInit(now, failAt) ==
    /\ made
    /\ inits < MaxInits
    /\ inits' = inits + 1
    /\ IF dstHandle # "open"
       THEN /\ ret' = Ret("Init", "InitHeader")
            /\ UNCHANGED <<dstFile, dstPos, segments, scanErr, srcRead, srcFile>>
       ELSE LET r == loadSegments(srcFile, IF srcHandle = "open" THEN failAt ELSE 1, segments) IN
            /\ srcRead' = r.read
            /\ srcFile' = DropBytes(srcFile, r.rd)
            /\ dstFile' = Append(dstFile, WriteRec(0, "header", HeaderBytes(indexPolicy, now), 0))
            /\ dstPos' = HeaderInfoLength
            /\ segments' = r.segs
            /\ scanErr' = r.scanErr
            /\ ret' = Ret("Init", r.err)
    /\ UNCHANGED <<called, made, srcHandle, dstHandle, indexPolicy, regionPool, vectorIndex, runs, bulk>>

\* ------------------------------------------------------------ setVectorIndex
ZeroBlock == [FirstPtr |-> 0, LastPtr |-> 0]

\* m.vectorIndex[row][col], zero until written
VectorIndexAt(vi, cell) == IF cell \in DOMAIN vi THEN vi[cell] ELSE ZeroBlock

\* mutant of CellOf: row and column exchanged
CellOfSwapped(ip) == <<ip[1] % 256, (ip[1] \div 256) % 256>>

\* (ip>>24)&0xFF, (ip>>16)&0xFF
CellOf(ip) == <<(ip[1] \div 256) % 256, ip[1] % 256>>

setVectorIndex(vi, ip, ptr) ==
    LET cell == CellOf(ip)
        viBlock == VectorIndexAt(vi, cell)
        new == IF viBlock.FirstPtr = 0
               THEN [FirstPtr |-> ptr, LastPtr |-> Uint32(ptr + SegmentIndexBlockSize)]
               ELSE [viBlock EXCEPT !.LastPtr = Uint32(ptr + SegmentIndexBlockSize)]
    IN [c \in DOMAIN vi \cup {cell} |-> IF c = cell THEN new ELSE vi[c]]

\* VectorIndexBlock.Encode: first ptr, last ptr
EncodeVectorIndexBlock(b) == PutUint32(b.FirstPtr) \o PutUint32(b.LastPtr)

\* ------------------------------------------------------------ Segment.Split
\* the sub-ranges of a segment, one per (first byte, second byte) it touches
Split(seg) ==
    LET hiS == seg.StartIP[1]
        hiE == seg.EndIP[1]
    IN [k \in 1..(hiE - hiS + 1) |->
           Segment(IF k = 1 THEN seg.StartIP ELSE <<hiS + k - 1, 0>>,
                   IF hiS + k - 1 = hiE THEN seg.EndIP ELSE <<hiS + k - 1, Half - 1>>,
                   seg.Region)]

\* SegmentIndexBlock.Encode: start ip, end ip, data length, data ptr
EncodeSegmentIndexBlock(b) ==
    PutUint32IP(b.StartIP) \o PutUint32IP(b.EndIP) \o PutUint16(b.DataLen) \o PutUint32(b.DataPtr)

\* ------------------------------------------------------------ Start
\* The pass state st: pool (regionPool), vi (vectorIndex), pos (the file
\* cursor), log (the file), counter, startIndexPtr, endIndexPtr, err.

\* step 1, the body of the loop over the segments (lines 234-258)
WriteRegion(st, seg, run) ==
    IF seg.Region \in DOMAIN st.pool THEN st
    ELSE IF RegionLen(seg.Region) > MaxRegionLen THEN [st EXCEPT !.err = "TextTooLong"]
    ELSE [st EXCEPT !.log = Append(st.log, WriteRec(st.pos, "region", seg.Region, run)),
                    !.pos = st.pos + RegionLen(seg.Region),
                    !.pool = [t \in DOMAIN st.pool \cup {seg.Region} |->
                                 IF t = seg.Region THEN Uint32(st.pos) ELSE st.pool[t]]]

RECURSIVE WriteRegions(_, _, _, _)
WriteRegions(st, segs, i, run) ==
    IF i > Len(segs) \/ st.err # "none" THEN st
    ELSE WriteRegions(WriteRegion(st, segs[i], run), segs, i + 1, run)

\* step 2, the body of the loop over the splits of a segment (lines 279-305)
WriteIndexBlock(st, s, dataLen, dataPtr, run) ==
    LET pos == st.pos
        sIndex == [StartIP |-> s.StartIP, EndIP |-> s.EndIP,
                   DataLen |-> Uint16(dataLen), DataPtr |-> dataPtr]
    IN [st EXCEPT !.log = Append(st.log, WriteRec(pos, "index", EncodeSegmentIndexBlock(sIndex), run)),
                  !.pos = pos + Len(EncodeSegmentIndexBlock(sIndex)),
                  !.vi = setVectorIndex(st.vi, s.StartIP, Uint32(pos)),
                  !.counter = st.counter + 1,
                  !.startIndexPtr = IF st.startIndexPtr = -1 THEN pos ELSE st.startIndexPtr,
                  !.endIndexPtr = pos]

RECURSIVE WriteIndexBlocks(_, _, _, _, _, _)
WriteIndexBlocks(st, segList, k, dataLen, dataPtr, run) ==
    IF k > Len(segList) THEN st
    ELSE WriteIndexBlocks(WriteIndexBlock(st, segList[k], dataLen, dataPtr, run),
                          segList, k + 1, dataLen, dataPtr, run)

\* step 2, the body of the loop over the segments (lines 265-306)
IndexSegment(st, seg, run) ==
    IF seg.Region \notin DOMAIN st.pool THEN [st EXCEPT !.err = "MissingPtr"]
    ELSE IF RegionLen(seg.Region) < 1 THEN [st EXCEPT !.err = "EmptyRegion"]
    ELSE WriteIndexBlocks(st, Split(seg), 1, RegionLen(seg.Region), st.pool[seg.Region], run)

RECURSIVE IndexSegments(_, _, _, _)
IndexSegments(st, segs, i, run) ==
    IF i > Len(segs) \/ st.err # "none" THEN st
    ELSE IndexSegments(IndexSegment(st, segs[i], run), segs, i + 1, run)

\* the vector index, written cell by cell from HeaderInfoLength on (lines 311-323)
WriteVectorIndex(st, run) ==
    [st EXCEPT !.log = Append(st.log, WriteRec(HeaderInfoLength, "vector", st.vi, run)),
               !.pos = HeaderInfoLength + VectorIndexLength]

\* the two index ptrs patched into the header (lines 327-338)
WriteIndexPtrs(st, run) ==
    [st EXCEPT !.log = Append(st.log, WriteRec(8, "ptrs",
                           PutUint32(Uint32(st.startIndexPtr)) \o PutUint32(Uint32(st.endIndexPtr)), run)),
               !.pos = 16]

\* the pass of Start once the segment list is known to be non-empty and the
\* first seek has succeeded (lines 226-343)
StartPass(segs, pool, vi, log, run) ==
    LET st0 == [pool |-> pool, vi |-> vi, pos |-> HeaderInfoLength + VectorIndexLength, log |-> log,
                counter |-> 0, startIndexPtr |-> -1, endIndexPtr |-> -1, err |-> "none"]
        st1 == WriteRegions(st0, segs, 1, run)
        st2 == IndexSegments(st1, segs, 1, run)
    IN IF st1.err # "none" THEN st1
       ELSE IF st2.err # "none" THEN st2
       ELSE WriteIndexPtrs(WriteVectorIndex(st2, run), run)

\* the guard of line 222
EmptySegments(segs) == Len(segs) < 1

\* mutant of Start: the seek to the data block comes before the test of the
\* segment list
StartSeekFirst ==
    /\ made
    /\ runs < MaxStarts
    /\ IF dstHandle # "open"
       THEN /\ ret' = Ret("Start", "IOFailure")
            /\ UNCHANGED <<regionPool, vectorIndex, dstFile, dstPos, runs>>
       ELSE IF EmptySegments(segments)
       THEN /\ ret' = Ret("Start", "EmptyPayload")
            /\ dstPos' = HeaderInfoLength + VectorIndexLength
            /\ UNCHANGED <<regionPool, vectorIndex, dstFile, runs>>
       ELSE LET st == StartPass(segments, regionPool, vectorIndex, dstFile, runs + 1) IN
            /\ regionPool' = st.pool
            /\ vectorIndex' = st.vi
            /\ dstFile' = st.log
            /\ dstPos' = st.pos
            /\ runs' = runs + 1
            /\ ret' = Ret("Start", st.err)
    /\ UNCHANGED <<called, made, srcFile, srcRead, srcHandle, dstHandle, indexPolicy, segments, scanErr, inits, bulk>>

Start ==
    /\ made
    /\ runs < MaxStarts
    /\ IF EmptySegments(segments)
       THEN /\ ret' = Ret("Start", "EmptyPayload")
            /\ UNCHANGED <<regionPool, vectorIndex, dstFile, dstPos, runs>>
       ELSE IF dstHandle # "open"
       THEN /\ ret' = Ret("Start", "IOFailure")
            /\ UNCHANGED <<regionPool, vectorIndex, dstFile, dstPos, runs>>
       ELSE LET st == StartPass(segments, regionPool, vectorIndex, dstFile, runs + 1) IN
            /\ regionPool' = st.pool
            /\ vectorIndex' = st.vi
            /\ dstFile' = st.log
            /\ dstPos' = st.pos
            /\ runs' = runs + 1
            /\ ret' = Ret("Start", st.err)
    /\ UNCHANGED <<called, made, srcFile, srcRead, srcHandle, dstHandle, indexPolicy, segments, scanErr, inits, bulk>>

\* ------------------------------------------------------------ End
\* Close of a handle: an open handle is closed whether or not Close reports
\* an error; a handle already closed reports one
End(dstOk, srcOk) ==
    /\ made
    /\ dstHandle' = "closed"
    /\ IF dstHandle = "open" /\ dstOk
       THEN /\ srcHandle' = "closed"
            /\ ret' = Ret("End", IF srcHandle = "open" /\ srcOk THEN "none" ELSE "CloseSource")
       ELSE /\ srcHandle' = srcHandle
            /\ ret' = Ret("End", "CloseTarget")
    /\ UNCHANGED <<called, made, srcFile, srcRead, indexPolicy, segments, regionPool, vectorIndex,
                   dstFile, dstPos, scanErr, inits, runs, bulk>>

\* ------------------------------------------------------------ reading the file
\* byte k (from 0) of what a write put into the file
WriteByte(w, k) ==
    IF w.what = "region" THEN CharCode(w.data.ch)
    ELSE IF w.what = "vector"
    THEN LET n == k \div VectorIndexSize
             cell == <<n \div VectorIndexCols, n % VectorIndexCols>>
         IN EncodeVectorIndexBlock(VectorIndexAt(w.data, cell))[(k % VectorIndexSize) + 1]
    ELSE w.data[k + 1]

Covers(w, off) == w.pos <= off /\ off < w.pos + WriteLen(w)

\* the byte at an offset of the file: that of the last write over it
ByteAt(log, off) ==
    LET J == {j \in 1..Len(log) : Covers(log[j], off)}
        w == log[MaxOf(J)]
    IN IF J = {} THEN 0 ELSE WriteByte(w, off - w.pos)

ReadBytes(log, off, n) == [i \in 1..n |-> ByteAt(log, off + i - 1)]

\* the header fields, decoded from the file
HeaderVersion(log) == GetUint16(ReadBytes(log, 0, 2))

HeaderStartIndexPtr(log) == GetUint32(ReadBytes(log, 8, 4))

HeaderEndIndexPtr(log) == GetUint32(ReadBytes(log, 12, 4))

\* the vector index block of a cell, decoded from the file
VectorIndexOffset(cell) == HeaderInfoLength + (cell[1] * VectorIndexCols + cell[2]) * VectorIndexSize

ReadVectorIndexBlock(log, cell) ==
    [FirstPtr |-> GetUint32(ReadBytes(log, VectorIndexOffset(cell), 4)),
     LastPtr |-> GetUint32(ReadBytes(log, VectorIndexOffset(cell) + 4, 4))]

\* the index entry stored at an offset, decoded from the file
ReadSegmentIndexBlock(log, off) ==
    [StartIP |-> GetUint32IP(ReadBytes(log, off, 4)),
     EndIP |-> GetUint32IP(ReadBytes(log, off + 4, 4)),
     DataLen |-> GetUint16(ReadBytes(log, off + 8, 2)),
     DataPtr |-> GetUint32(ReadBytes(log, off + 10, 4))]

\* the writes of one kind made by one pass of Start
WritesOf(log, what, run) == {j \in 1..Len(log) : log[j].what = what /\ log[j].run = run}

Next ==
    \/ Start
    \/ \E now \in Clock : \E failAt \in 0..ReadsOf(srcFile, segments) : MakerInit(now, failAt)
    \/ \E do \in BOOLEAN, so \in BOOLEAN : End(do, so)
    \/ \E p \in Policies, file \in SourceFiles, so \in BOOLEAN, do \in BOOLEAN : NewMaker(p, file, so, do)

Spec == Init /\ [][Next]_vars

\* ============================================================ the bulk build
\* Init and Start on a source file large enough for the file cursor to pass
\* 2^32, with the cursor kept at the width of Go's int64 and the stored
\* offsets at that of uint32.  The file holds n records; record k (from 1)
\* is the single address k - 1 with a text of len bytes:
\* "0.0.0.0|0.0.0.0|<text 1>", "0.0.0.1|0.0.0.1|<text 2>", and so on.  The
\* file uses kinds different texts in turn: the texts of the first kinds
\* records are pairwise distinct, and record k carries the text of record
\* k - kinds.  The first loadSegments reads the file to its end and accepts
\* every record (each starts right after the one before it); a later one
\* finds nothing more to read.  Split gives each range back as its single
\* sub-range, and the two loops of Start are taken in closed form.  In the
\* first pass the data loop writes the j-th different text with the cursor
\* at TextPos(len, j) and skips a record whose text is in regionPool, and
\* the k-th turn of the index loop finds the cursor at EntryPos(w, len, k),
\* w being the number of texts written; a later pass finds every text in
\* regionPool, writes none and has its index loop start where the data loop
\* started.  bulk keeps read (the file has been read), the cursor pos, the
\* header's two index ptrs as the file holds them, vi (m.vectorIndex),
\* poolLast (the ptr regionPool holds for the text of the last record), and
\* the calls made.

\* an int64 file position x as <<x \div 2^16, x % 2^16>>
Int64(x) == <<x \div Half, x % Half>>

Int64Add(p, q) == LET s == p[2] + q[2] IN <<p[1] + q[1] + s \div Half, s % Half>>

\* a * b as an int64, for 0 <= a < 2^16 and 0 <= b
Int64Mul(a, b) ==
    LET lo == (a % 256) * (b % Half)
        mid == (a \div 256) * (b % Half)
    IN Int64Add(Int64Add(Int64(lo), <<mid \div 256, (mid % 256) * 256>>), <<a * (b \div Half), 0>>)

\* uint32(pos) of an int64 position: the low 32 bits, as <<hi16, lo16>>
Uint32Of(p) == <<p[1] % Half, p[2]>>

\* ptr + k in uint32 arithmetic
U32Add(a, k) == LET s == a[2] + k IN <<(a[1] + s \div Half) % Half, s % Half>>

\* the bulk inputs: the number of records, the length of each text (short
\* enough for the scanner to deliver every line), and the number of different
\* texts the file uses in turn
BulkCounts == {0, 1, 2, 3, 65536, 65537, 66000, 66068, 66069, 66070, 66071, 66075, 66100, 70000, 131072, 200000}

BulkLens == {1, 3, 65000, 65511}

BulkKinds == {1, 62, 250, 200000}

\* a number of different texts of len bytes that a source file can hold: the
\* 250 single bytes that TrimSpace (line 145) leaves at the end of a line, and
\* for three bytes or more at least the 62^3 texts of letters and digits
TextKinds(len) == IF len < 3 THEN 250 ELSE 62 * 62 * 62

\* the address of record k
BulkIP(k) == <<(k - 1) \div Half, (k - 1) % Half>>

\* Init: the header is written, its index ptrs zero, and what is left of the
\* file is read: its n records by the first call, nothing by a later one
BulkInit(n, len, kinds) ==
    /\ bulk.inits < MaxInits
    /\ kinds <= TextKinds(len)
    /\ bulk' = [bulk EXCEPT !.read = TRUE,
                            !.n = IF bulk.read THEN bulk.n ELSE n,
                            !.len = IF bulk.read THEN bulk.len ELSE len,
                            !.kinds = IF bulk.read THEN bulk.kinds ELSE kinds,
                            !.pos = Int64(HeaderInfoLength),
                            !.startIndexPtr = <<0, 0>>,
                            !.endIndexPtr = <<0, 0>>,
                            !.inits = bulk.inits + 1,
                            !.op = "Init",
                            !.err = "none"]
    /\ UNCHANGED makerVars

\* the cursor when the data loop of the first pass writes the k-th different
\* text (line 247): the seek of line 227 and k - 1 texts of len bytes
TextPos(len, k) == Int64Add(Int64(HeaderInfoLength + VectorIndexLength), Int64Mul(len, k - 1))

\* the cursor when an index loop that starts at base writes its k-th entry
\* (line 280)
IndexPos(base, k) == Int64Add(base, Int64(SegmentIndexBlockSize * (k - 1)))

\* the cursor when the index loop of the first pass writes the k-th entry:
\* behind the w texts written and k - 1 entries
EntryPos(w, len, k) == IndexPos(TextPos(len, w + 1), k)

\* the number of texts the data loop of the first pass writes: a text that
\* is in regionPool is skipped (lines 235-239)
Written(b) == Min(b.n, b.kinds)

\* which of the texts written is the text of the last record
LastText(b) == ((b.n - 1) % b.kinds) + 1

\* the first and the last record whose address lies in the c-th cell
FirstIn(c) == c * Half + 1

LastIn(n, c) == IF n < (c + 1) * Half THEN n ELSE (c + 1) * Half

\* m.vectorIndex after setVectorIndex(address k, uint32(IndexPos(base, k)))
\* for k = 1..n, from the grid vi: a first ptr that is set stays; one that is
\* 0 becomes the ptr of the cell's first record (of its second, should that
\* ptr be the zero that counts as unset); the last ptr becomes that of the
\* cell's last record plus the entry size
BulkVectorIndex(vi, n, base) ==
    [cell \in {CellOf(BulkIP(FirstIn(c))) : c \in 0..((n - 1) \div Half)} |->
        LET c == cell[1] * 256 + cell[2]
            old == IF cell \in DOMAIN vi THEN vi[cell].FirstPtr ELSE <<0, 0>>
            p1 == Uint32Of(IndexPos(base, FirstIn(c)))
        IN [FirstPtr |-> IF old # <<0, 0>> THEN old
                         ELSE IF p1 # <<0, 0>> \/ FirstIn(c) = LastIn(n, c) THEN p1
                         ELSE Uint32Of(IndexPos(base, FirstIn(c) + 1)),
            LastPtr |-> U32Add(Uint32Of(IndexPos(base, LastIn(n, c))), SegmentIndexBlockSize)]]

\* where the index loop of the next pass starts: behind the texts the pass
\* writes, which are the different ones in the first pass and none later
IndexBase(b) == IF b.passes = 0 THEN TextPos(b.len, Written(b) + 1) ELSE Int64(HeaderInfoLength + VectorIndexLength)

\* Start on the bulk input
BulkStart ==
    /\ bulk.passes < MaxStarts
    /\ bulk' = IF bulk.n < 1 THEN [bulk EXCEPT !.op = "Start", !.err = "EmptyPayload"]
               ELSE IF bulk.len > MaxRegionLen
               THEN [bulk EXCEPT !.op = "Start", !.err = "TextTooLong",
                                 !.pos = Int64(HeaderInfoLength + VectorIndexLength)]
               ELSE [bulk EXCEPT !.op = "Start", !.err = "none",
                                 !.passes = bulk.passes + 1,
                                 !.poolLast = IF bulk.passes = 0 THEN Uint32Of(TextPos(bulk.len, LastText(bulk)))
                                              ELSE bulk.poolLast,
                                 !.vi = BulkVectorIndex(bulk.vi, bulk.n, IndexBase(bulk)),
                                 !.startIndexPtr = Uint32Of(IndexPos(IndexBase(bulk), 1)),
                                 !.endIndexPtr = Uint32Of(IndexPos(IndexBase(bulk), bulk.n)),
                                 !.pos = Int64(16)]
    /\ UNCHANGED makerVars

BulkNext ==
    \/ BulkStart
    \/ \E n \in BulkCounts, len \in BulkLens, kinds \in BulkKinds : BulkInit(n, len, kinds)

BulkSpec == Init /\ [][BulkNext]_vars

\* ============================================================ properties
MinOf(S) == CHOOSE x \in S : \A y \in S : x <= y

\* the file is as a pass of Start that ran to its end has left it: the patch
\* of the header is the last write made to it
StartDone ==
    /\ runs > 0
    /\ dstFile # <<>>
    /\ dstFile[Len(dstFile)].what = "ptrs"
    /\ dstFile[Len(dstFile)].run = runs

\* the index entries the last pass wrote, by their place in the list of writes
IndexWrites == WritesOf(dstFile, "index", runs)

IndexAt(j) == ReadSegmentIndexBlock(dstFile, dstFile[j].pos)

\* an index entry lies in the address range of a segment
EntryOf(e, seg) == ~U32Gt(seg.StartIP, e.StartIP) /\ ~U32Gt(e.EndIP, seg.EndIP)

EntriesOf(seg) == {IndexAt(j) : j \in {i \in IndexWrites : EntryOf(IndexAt(i), seg)}}

\* the top two bytes of an address
TopTwoBytes(ip) == <<ip[1] \div 256, ip[1] % 256>>

HasLongText(file) == \E i \in 1..Len(file) : file[i].fields = 3 /\ RegionLen(file[i].region) > MaxRegionLen

\* ---- C1
\* C1 (as claimed): the loaded range list is strictly ascending and gapless
\* over uint32: each range starts right after, and above, the end of the one
\* before it; a record ending at 255.255.255.255 followed by one starting at
\* 0.0.0.0 is not accepted.
C1_AscendingGapless ==
    \A i \in 1..(Len(segments) - 1) :
        /\ U32Inc(segments[i].EndIP) = segments[i + 1].StartIP
        /\ U32Gt(segments[i + 1].StartIP, segments[i].EndIP)

\* ---- C2
\* C2 (as claimed): after a successful Start, ranges with the same text carry the same
\* text offset and the text's length in all their index entries, ranges with
\* different texts carry different offsets, and each text of the range list
\* was written to the file exactly once.
C2_Dedup ==
    StartDone =>
        /\ \A i \in 1..Len(segments) : EntriesOf(segments[i]) # {}
        /\ \A i \in 1..Len(segments), j \in 1..Len(segments) :
              \A e1 \in EntriesOf(segments[i]), e2 \in EntriesOf(segments[j]) :
                  /\ e1.DataLen = RegionLen(segments[i].Region)
                  /\ (segments[i].Region = segments[j].Region) <=> (e1.DataPtr = e2.DataPtr)
        /\ \A i \in 1..Len(segments) :
              Cardinality({j \in 1..Len(dstFile) : dstFile[j].what = "region"
                                                   /\ dstFile[j].data = segments[i].Region}) = 1

\* ---- C3
\* where the index loop of the pass that bulk shows the result of started
PassBase(b) == IndexBase([b EXCEPT !.passes = b.passes - 1])

\* C3 (as claimed, an entry taken at its encoded size): after a successful
\* Start on a bulk input the header's bytes [8:12] hold the file offset at
\* which the first index entry of the pass was written and bytes [12:16] the
\* offset at which its last one was written; first <= last, and last - first
\* is the entry size times (entries written - 1).
C3_HeaderPtrs ==
    (bulk.op = "Start" /\ bulk.err = "none") =>
        /\ bulk.startIndexPtr = IndexPos(PassBase(bulk), 1)
        /\ bulk.endIndexPtr = IndexPos(PassBase(bulk), bulk.n)
        /\ ~U32Gt(bulk.startIndexPtr, bulk.endIndexPtr)
        /\ bulk.endIndexPtr = Int64Add(bulk.startIndexPtr, Int64(SegmentIndexBlockSize * (bulk.n - 1)))

\* ---- C4
\* C4 (as claimed, an entry taken at its encoded size): after a successful
\* Start, for every cell with an index entry, the cell's bracket
\* [first, last) is a whole number of entries, every entry stored in it has
\* start and end in that cell, and every entry of the cell lies inside it.
C4_Brackets ==
    StartDone =>
        \A j \in IndexWrites :
            LET cell == TopTwoBytes(IndexAt(j).StartIP)
                b == ReadVectorIndexBlock(dstFile, cell)
            IN /\ b.FirstPtr <= b.LastPtr
               /\ (b.LastPtr - b.FirstPtr) % SegmentIndexBlockSize = 0
               /\ \A k \in 0..(((b.LastPtr - b.FirstPtr) \div SegmentIndexBlockSize) - 1) :
                     LET x == ReadSegmentIndexBlock(dstFile, b.FirstPtr + k * SegmentIndexBlockSize)
                     IN TopTwoBytes(x.StartIP) = cell /\ TopTwoBytes(x.EndIP) = cell
               /\ b.FirstPtr <= dstFile[j].pos
               /\ dstFile[j].pos + SegmentIndexBlockSize <= b.LastPtr

\* ---- C5
\* the cells read back from the file: those of the addresses of the inputs
\* and others no input touches
ProbeCells == {<<0, 0>>, <<0, 1>>, <<0, 2>>, <<1, 0>>, <<127, 128>>, <<255, 0>>, <<255, 254>>, <<255, 255>>}

\* C5: after a successful Start the vector index fills the file's bytes
\* [256, 256 + 524288) and nothing else was written there; the cell of
\* (row r, column c) is stored at 256 + (r * 256 + c) * 8, as the first and
\* last ptr the Maker holds for it, and it is 0, 0 exactly if no index entry
\* starts in that cell.
C5_Grid ==
    StartDone =>
        LET started == {TopTwoBytes(GetUint32IP(ReadBytes(dstFile, dstFile[j].pos, 4))) : j \in IndexWrites} IN
        /\ \A j \in 1..Len(dstFile) :
              \/ dstFile[j].what \in {"header", "ptrs"}
              \/ dstFile[j].what = "vector" /\ dstFile[j].pos = 256 /\ WriteLen(dstFile[j]) = 524288
              \/ dstFile[j].pos >= 256 + 524288
        /\ \A cell \in ProbeCells :
              LET first == GetUint32(ReadBytes(dstFile, 256 + (cell[1] * 256 + cell[2]) * 8, 4))
                  last == GetUint32(ReadBytes(dstFile, 256 + (cell[1] * 256 + cell[2]) * 8 + 4, 4))
              IN /\ first = VectorIndexAt(vectorIndex, cell).FirstPtr
                 /\ last = VectorIndexAt(vectorIndex, cell).LastPtr
                 /\ (first = 0 /\ last = 0) <=> (cell \notin started)
                 /\ (first = 0) <=> (last = 0)

C5_Witness ==
    /\ StartDone
    /\ \E j \in IndexWrites : TopTwoBytes(IndexAt(j).StartIP) = <<0, 1>>
    /\ \E j \in IndexWrites : TopTwoBytes(IndexAt(j).StartIP) = <<0, 0>>

\* ---- C6
\* C6: a Start on an empty range list, before Init or after an Init that
\* loaded nothing, fails with EmptyPayload and leaves the file, its cursor,
\* the region pool and the vector index as they were.
C6_EmptyPayload ==
    [][(Start /\ Len(segments) = 0) =>
          /\ ret'.err = "EmptyPayload"
          /\ UNCHANGED <<dstFile, dstPos, regionPool, vectorIndex>>]_vars

C6_Witness == ret = Ret("Start", "EmptyPayload") /\ inits = 1 /\ srcRead = <<>> /\ scanErr = "none" /\ dstHandle = "open"

\* ---- C7
\* C7 (as claimed): when the input holds a range whose text is longer than
\* 65535 bytes, after ranges that were loaded, and Init has read up to it,
\* Start fails with TextTooLong.
C7_TextTooLong ==
    (HasLongText(srcRead) /\ scanErr = "tooLong" /\ segments # <<>> /\ ret.op = "Start")
        => ret.err = "TextTooLong"

\* ---- C8
\* a line that passes every test of the loop but that of continuity
ValidRecord(l) ==
    /\ l.fields = 3
    /\ CheckIPOk(l.sip)
    /\ CheckIPOk(l.eip)
    /\ ~U32Gt(CheckIP(l.sip), CheckIP(l.eip))
    /\ RegionLen(l.region) >= 1

\* C8: every loaded range has start <= end and a non-empty text; and when
\* Init returns the error of a line, the lines it was handed before that one
\* are the last ranges of the list, the line itself not being appended, and
\* a record with start > end gives InvalidRange, one with start <= end and an
\* empty third field gives EmptyText.
C8_Rejects ==
    /\ \A i \in 1..Len(segments) :
          ~U32Gt(segments[i].StartIP, segments[i].EndIP) /\ RegionLen(segments[i].Region) >= 1
    /\ (ret.op = "Init" /\ ret.err \notin {"none", "InitHeader"}) =>
          /\ srcRead # <<>>
          /\ Len(segments) >= Len(srcRead) - 1
          /\ \A i \in 1..(Len(srcRead) - 1) :
                /\ ValidRecord(srcRead[i])
                /\ segments[Len(segments) - (Len(srcRead) - 1) + i]
                       = Segment(CheckIP(srcRead[i].sip), CheckIP(srcRead[i].eip), srcRead[i].region)
          /\ LET l == srcRead[Len(srcRead)] IN
             (l.fields = 3 /\ CheckIPOk(l.sip) /\ CheckIPOk(l.eip)) =>
                IF U32Gt(CheckIP(l.sip), CheckIP(l.eip)) THEN ret.err = "InvalidRange"
                ELSE IF RegionLen(l.region) = 0 THEN ret.err = "EmptyText"
                ELSE ret.err = "DiscontinuousRange"

C8_Witness == ret = Ret("Init", "InvalidRange") /\ Len(segments) = 1 /\ Len(srcRead) = 2

\* ---- C9
\* C9 (as claimed): when the line scanner stops on an error (a failed read,
\* a line it cannot deliver), Init returns an error.
C9_ReadErrorSurfaced == (ret.op = "Init" /\ scanErr # "none") => ret.err # "none"

\* ---- C10
\* C10 (as claimed): once NewMaker, Init or Start has returned an error, or
\* End has returned, no handle the Maker opened is still open.
C10_HandlesClosed ==
    (ret.err # "none" \/ ret.op = "End") => (srcHandle # "open" /\ dstHandle # "open")

\* ---- C11
\* the texts written to the file by any pass, by their place in the list of writes
RegionWrites == {j \in 1..Len(dstFile) : dstFile[j].what = "region"}

RECURSIVE SumLen(_)
SumLen(S) == IF S = {} THEN 0 ELSE LET j == MaxOf(S) IN WriteLen(dstFile[j]) + SumLen(S \ {j})

\* the distinct texts of a range list, in the order of their first occurrence
RECURSIVE FirstOccurrences(_, _, _)
FirstOccurrences(segs, i, acc) ==
    IF i > Len(segs) THEN acc
    ELSE FirstOccurrences(segs, i + 1,
                          IF \E k \in 1..Len(acc) : acc[k] = segs[i].Region THEN acc
                          ELSE Append(acc, segs[i].Region))

\* the texts of the file in the order they were written
RECURSIVE TextsWritten(_, _)
TextsWritten(log, j) ==
    IF j > Len(log) THEN <<>>
    ELSE (IF log[j].what = "region" THEN <<log[j].data>> ELSE <<>>) \o TextsWritten(log, j + 1)

\* C11 (as claimed): when a Start has run to its end, each text it wrote was
\* written before its first index entry; the texts of the file start at
\* 256 + 524288 and follow each other without a gap, being the distinct
\* texts of the range list in the order of their first occurrence; the first
\* index entry of the Start lies exactly where the texts end; and every
\* index entry of the Start has 256 + 524288 <= text offset and
\* text offset + text length <= offset of the first index entry.
C11_PayloadBeforeIndex ==
    StartDone =>
        LET first == dstFile[MinOf(IndexWrites)].pos IN
        /\ \A j \in WritesOf(dstFile, "region", runs), i \in IndexWrites : j < i
        /\ \A j \in RegionWrites :
              dstFile[j].pos = 256 + 524288 + SumLen({k \in RegionWrites : k < j})
        /\ TextsWritten(dstFile, 1) = FirstOccurrences(segments, 1, <<>>)
        /\ first = 256 + 524288 + SumLen(RegionWrites)
        /\ \A i \in IndexWrites :
              /\ 256 + 524288 <= IndexAt(i).DataPtr
              /\ IndexAt(i).DataPtr + IndexAt(i).DataLen <= first

\* ---- C12
\* two index entries of the last pass written one right after the other
NextIndexWrite(j, k) == j < k /\ \A i \in IndexWrites : ~(j < i /\ i < k)

\* C12 (as claimed, an entry taken at its encoded size): when a Start has
\* run to its end, the index entries it wrote lie in the file one right
\* after the other; the start and end of each share their top two bytes;
\* each entry starts right after, and above, the end of the entry before it;
\* the entries cover the loaded ranges from the start of the first to the
\* end of the last, each lying in one range and carrying the length of that
\* range's text and the offset the text was written at.
C12_IndexEntries ==
    StartDone =>
        /\ \A j \in IndexWrites, k \in IndexWrites :
              NextIndexWrite(j, k) =>
                  /\ dstFile[k].pos = dstFile[j].pos + SegmentIndexBlockSize
                  /\ U32Inc(IndexAt(j).EndIP) = IndexAt(k).StartIP
                  /\ U32Gt(IndexAt(k).StartIP, IndexAt(j).EndIP)
        /\ \A j \in IndexWrites :
              /\ TopTwoBytes(IndexAt(j).StartIP) = TopTwoBytes(IndexAt(j).EndIP)
              /\ \E i \in 1..Len(segments) :
                    /\ EntryOf(IndexAt(j), segments[i])
                    /\ IndexAt(j).DataLen = RegionLen(segments[i].Region)
                    /\ \E w \in RegionWrites :
                          /\ dstFile[w].data = segments[i].Region
                          /\ dstFile[w].pos = IndexAt(j).DataPtr
        /\ IndexAt(MinOf(IndexWrites)).StartIP = segments[1].StartIP
        /\ IndexAt(MaxOf(IndexWrites)).EndIP = segments[Len(segments)].EndIP

\* ---- C13
\* the cells the Maker has recorded an entry for, and their place in the grid
UsedCells == DOMAIN vectorIndex

CellIndex(cell) == cell[1] * 256 + cell[2]

NextUsedCell(c, d) ==
    CellIndex(c) < CellIndex(d) /\ \A x \in UsedCells : ~(CellIndex(c) < CellIndex(x) /\ CellIndex(x) < CellIndex(d))

\* C13 (as claimed, an entry taken at its encoded size): when a Start has
\* run to its end, the brackets [first, last) the file holds for the used
\* cells are non-empty, lie in the file in the order of their cell indices
\* without overlapping, each ending where the bracket of the next used cell
\* starts; the smallest first is the header's first index offset and the
\* largest last is the header's last index offset plus one entry.
C13_BracketsTile ==
    StartDone =>
        /\ \A c \in UsedCells :
              ReadVectorIndexBlock(dstFile, c).FirstPtr < ReadVectorIndexBlock(dstFile, c).LastPtr
        /\ \A c \in UsedCells, d \in UsedCells :
              /\ CellIndex(c) < CellIndex(d) =>
                    ReadVectorIndexBlock(dstFile, c).LastPtr <= ReadVectorIndexBlock(dstFile, d).FirstPtr
              /\ NextUsedCell(c, d) =>
                    ReadVectorIndexBlock(dstFile, c).LastPtr = ReadVectorIndexBlock(dstFile, d).FirstPtr
        /\ MinOf({ReadVectorIndexBlock(dstFile, c).FirstPtr : c \in UsedCells}) = HeaderStartIndexPtr(dstFile)
        /\ MaxOf({ReadVectorIndexBlock(dstFile, c).LastPtr : c \in UsedCells})
               = HeaderEndIndexPtr(dstFile) + SegmentIndexBlockSize

\* ---- C14
\* C14 (as claimed, an entry taken at its encoded size): after a successful
\* Start on a bulk input each cell of the grid holds as first the ptr of the
\* first entry setVectorIndex was called with for the cell, in the first
\* pass (a first, once set, stays, and no ptr is taken for the unset 0), and
\* as last the ptr of the cell's last entry in this pass plus the entry
\* size; and every such ptr is at least 256 + 524288.
C14_SetVectorIndex ==
    (bulk.op = "Start" /\ bulk.err = "none") =>
        \A cell \in DOMAIN bulk.vi :
            LET c == cell[1] * 256 + cell[2]
                ptr1 == Uint32Of(EntryPos(Written(bulk), bulk.len, FirstIn(c)))
                ptrN == Uint32Of(IndexPos(PassBase(bulk), LastIn(bulk.n, c)))
            IN /\ bulk.vi[cell].FirstPtr = ptr1
               /\ bulk.vi[cell].LastPtr = Int64Add(ptrN, Int64(SegmentIndexBlockSize))
               /\ ~U32Gt(Int64(HeaderInfoLength + VectorIndexLength), ptr1)
               /\ ~U32Gt(Int64(HeaderInfoLength + VectorIndexLength), ptrN)

\* ---- C15
\* the bytes [from, to) of the file are those a write put there
KeptBytes(j, from, to) ==
    \A off \in from..(to - 1) : ByteAt(dstFile, off) = WriteByte(dstFile[j], off - dstFile[j].pos)

\* C15 (as claimed): when a Start has run to its end, each write of the
\* grid covers exactly the bytes [256, 256 + 524288) and each patch of the
\* header exactly the bytes [8, 16); the bytes [0, 8) and [16, 256) of the
\* file are those Init wrote, and every byte of every text and of every
\* index entry is as it was written.
C15_BackWrites ==
    StartDone =>
        \A j \in 1..Len(dstFile) :
            /\ dstFile[j].what = "vector" => (dstFile[j].pos = 256 /\ WriteLen(dstFile[j]) = 524288)
            /\ dstFile[j].what = "ptrs" => (dstFile[j].pos = 8 /\ WriteLen(dstFile[j]) = 8)
            /\ dstFile[j].what = "header" => (KeptBytes(j, 0, 8) /\ KeptBytes(j, 16, 256))
            /\ dstFile[j].what \in {"region", "index"} =>
                  KeptBytes(j, dstFile[j].pos, dstFile[j].pos + WriteLen(dstFile[j]))

\* ---- C16
\* C16 (as claimed): a Start called when the Start before it has run to its
\* end returns an error and leaves the file, the region pool and the vector
\* index as they were.
C16_SecondStartRejected ==
    [][(Start /\ StartDone) =>
          /\ ret'.err # "none"
          /\ UNCHANGED <<dstFile, regionPool, vectorIndex>>]_vars

\* ---- C17
\* C17 (as claimed): a Start called right after an Init that returned an
\* error returns an error and writes nothing to the file.
C17_StartNeedsInit ==
    [][(Start /\ ret.op = "Init" /\ ret.err # "none") =>
          /\ ret'.err # "none"
          /\ UNCHANGED dstFile]_vars

\* ---- C18
\* C18 (as claimed, an entry taken at its encoded size): when the first Start
\* has built the file from a bulk input without an error, each offset it stored
\* in 32 bits is the file position it stands for: the offset of the last
\* record's text in the region pool, the first and last index offsets of the header,
\* and for each cell the offset of its first entry and the offset just past
\* its last entry.
C18_OffsetsFit ==
    (bulk.op = "Start" /\ bulk.err = "none" /\ bulk.passes = 1) =>
        /\ bulk.poolLast = TextPos(bulk.len, LastText(bulk))
        /\ bulk.startIndexPtr = EntryPos(Written(bulk), bulk.len, 1)
        /\ bulk.endIndexPtr = EntryPos(Written(bulk), bulk.len, bulk.n)
        /\ \A cell \in DOMAIN bulk.vi :
              LET c == cell[1] * 256 + cell[2] IN
              /\ bulk.vi[cell].FirstPtr = EntryPos(Written(bulk), bulk.len, FirstIn(c))
              /\ bulk.vi[cell].LastPtr = EntryPos(Written(bulk), bulk.len, LastIn(bulk.n, c) + 1)
====
